---- MODULE Spec2Model ----
(***************************************************************************)
(* food-label-mcp: verification of OCR-extracted food-label ingredients    *)
(* against a product record of the public food database.                   *)
(*                                                                         *)
(* Both servers (src/src/index.js, the stdio server, and                   *)
(* src/unnamed/part_000, the HTTP server) carry the same core:             *)
(* calculateSimilarity / getEditDistance, parseIngredients,                *)
(* verifyIngredients, searchFoodInDB and the verify_food_label handler.    *)
(*                                                                         *)
(* Representation of JavaScript values                                     *)
(*   - a string is the sequence of its UTF-16 code units, each code unit   *)
(*     named by a TLA+ string ("a", ",", "U+BC00");                        *)
(*   - a value that is not a string where a string is expected is a        *)
(*     one-element sequence holding its type name (undefined, null,        *)
(*     aNumber): no string over Char equals it;                            *)
(*   - a number produced by a division is kept as the exact fraction       *)
(*     [num, den]; for the operand sizes reached here the IEEE-754         *)
(*     comparisons of the code agree with the comparisons of fractions;    *)
(*   - objects and arrays that may be absent or malformed are records      *)
(*     tagged with t.                                                      *)
(***************************************************************************)
EXTENDS Integers, Sequences, FiniteSets, TLC

VARIABLES
    \* one call of calculateSimilarity
    str1, str2, similarity,
    \* one call of parseIngredients
    ingredientString, parsed,
    \* verifyIngredients, and verifyIngredients applied to its own output
    ocrIngredients, dbIngredientsString, first, second,
    \* one tools/call request through a server
    transport, request, response, dbProduct, result,
    \* where the call or the request stands
    pc

simVars == <<str1, str2, similarity>>
tokVars == <<ingredientString, parsed>>
recVars == <<ocrIngredients, dbIngredientsString, first, second>>
srvVars == <<transport, request, response, dbProduct, result>>
vars == <<simVars, tokVars, recVars, srvVars, pc>>

----------------------------------------------------------------------------
(* Bounds of the model *)

\* longest string given to calculateSimilarity on its own
MaxLen == 3
\* longest text given to parseIngredients on its own
MaxText == 5
\* most OCR tokens in one verifyIngredients call
MaxOcr == 2
\* most delimited pieces in one DB raw text
MaxPieces == 2

----------------------------------------------------------------------------
(* Code units *)

Letters == {"a", "b", "c", "d", "A", "B", "C", "D"}
\* U+BC00 U+AC00 U+B8E8 U+B958: the Hangul syllables mil, ga, ru, ryu;
\* U+C124 U+D0D5 U+C18C U+AE08: seol, tang, so, geum
Hangul == {"U+BC00", "U+AC00", "U+B8E8", "U+B958",
           "U+C124", "U+D0D5", "U+C18C", "U+AE08"}
Delimiters == {",", ";", "/"}
WhiteSpace == {" ", "\t"}
Char == Letters \cup Hangul \cup Delimiters \cup WhiteSpace

undefined == <<"undefined">>
null == <<"null">>
aNumber == <<"number">>

IsString(v) == \A k \in 1..Len(v) : v[k] \in Char

\* !v for a value that is a string, undefined or null
Falsy(v) == v = undefined \/ v = null \/ v = <<>>

\* a || b
OrElse(a, b) == IF Falsy(a) THEN b ELSE a

\* all strings over the alphabet S of length at most n
RECURSIVE StringsUpTo(_, _)
StringsUpTo(S, n) ==
    IF n = 0 THEN {<<>>}
    ELSE LET shorter == StringsUpTo(S, n - 1)
         IN  shorter \cup {Append(s, c) : s \in shorter, c \in S}

toLowerCaseUnit(c) ==
    CASE c = "A" -> "a"
      [] c = "B" -> "b"
      [] c = "C" -> "c"
      [] c = "D" -> "d"
      [] OTHER -> c

toLowerCase(s) == [k \in 1..Len(s) |-> toLowerCaseUnit(s[k])]

----------------------------------------------------------------------------
(* getEditDistance: one rolling row of costs *)

MathMin(a, b) == IF a < b THEN a ELSE b

\* The loops bind each new value of costs and lastValue through a
\* singleton set, which makes TLC compute the value where the code assigns
\* it rather than where it is last read.

\* the inner for loop, from j on; costs is indexed from 0 as in the code
RECURSIVE InnerLoop(_, _, _, _, _, _)
InnerLoop(s1, s2, i, j, costs, lastValue) ==
    IF j > Len(s2) THEN [costs |-> costs, lastValue |-> lastValue]
    ELSE IF i = 0 THEN
        CHOOSE r \in {InnerLoop(s1, s2, i, j + 1, c, lastValue) :
                        c \in {[costs EXCEPT ![j] = j]}} : TRUE
    ELSE IF j > 0 THEN
        LET newValue ==
                IF s1[i] # s2[j]
                THEN MathMin(MathMin(costs[j - 1], lastValue), costs[j]) + 1
                ELSE costs[j - 1]
        IN  CHOOSE r \in {InnerLoop(s1, s2, i, j + 1, c, v) :
                            c \in {[costs EXCEPT ![j - 1] = lastValue]},
                            v \in {newValue}} : TRUE
    ELSE InnerLoop(s1, s2, i, j + 1, costs, lastValue)

\* the outer for loop, from i on
RECURSIVE OuterLoop(_, _, _, _)
OuterLoop(s1, s2, i, costs) ==
    IF i > Len(s1) THEN costs
    ELSE LET row == InnerLoop(s1, s2, i, 0, costs, i)
         IN  CHOOSE r \in {OuterLoop(s1, s2, i + 1, c) :
                 c \in {IF i > 0
                        THEN [row.costs EXCEPT ![Len(s2)] = row.lastValue]
                        ELSE row.costs}} : TRUE

\* a mutant: the row's last cell is never stored
RECURSIVE OuterLoopNoLastCell(_, _, _, _)
OuterLoopNoLastCell(s1, s2, i, costs) ==
    IF i > Len(s1) THEN costs
    ELSE LET row == InnerLoop(s1, s2, i, 0, costs, i)
         IN  CHOOSE r \in {OuterLoopNoLastCell(s1, s2, i + 1, c) :
                             c \in {row.costs}} : TRUE

getEditDistanceNoLastCell(s1, s2) ==
    OuterLoopNoLastCell(s1, s2, 0, [j \in 0..Len(s2) |-> undefined])[Len(s2)]

\* costs = [] holds nothing until the pass i = 0 has written every cell
getEditDistance(s1, s2) ==
    OuterLoop(s1, s2, 0, [j \in 0..Len(s2) |-> undefined])[Len(s2)]

calculateSimilarity(s1, s2) ==
    IF Falsy(s1) \/ Falsy(s2) THEN [num |-> 0, den |-> 1]
    ELSE LET longer  == IF Len(s1) > Len(s2) THEN s1 ELSE s2
             shorter == IF Len(s1) > Len(s2) THEN s2 ELSE s1
         IN  IF Len(longer) = 0 THEN [num |-> 1, den |-> 1]
             ELSE [num |-> Len(longer) - getEditDistance(longer, shorter),
                   den |-> Len(longer)]

\* a mutant: >= for >
GreaterOrEqual(x, y) == x.num * y.den >= y.num * x.den

\* x > y on the numbers calculateSimilarity returns
Greater(x, y) == x.num * y.den > y.num * x.den

----------------------------------------------------------------------------
(* parseIngredients *)

\* String.prototype.split(/[,;\/]/), from code unit k on
RECURSIVE SplitFrom(_, _, _, _)
SplitFrom(s, k, piece, pieces) ==
    IF k > Len(s) THEN Append(pieces, piece)
    ELSE IF s[k] \in Delimiters
         THEN SplitFrom(s, k + 1, <<>>, Append(pieces, piece))
         ELSE SplitFrom(s, k + 1, Append(piece, s[k]), pieces)

split(s) == SplitFrom(s, 1, <<>>, <<>>)

RECURSIVE trimStart(_)
trimStart(s) ==
    IF s # <<>> /\ Head(s) \in WhiteSpace THEN trimStart(Tail(s)) ELSE s

RECURSIVE trimEnd(_)
trimEnd(s) ==
    IF s # <<>> /\ s[Len(s)] \in WhiteSpace
    THEN trimEnd(SubSeq(s, 1, Len(s) - 1))
    ELSE s

\* String.prototype.trim
trim(s) == trimEnd(trimStart(s))

\* the pieces, each trimmed
mapTrim(items) == [k \in 1..Len(items) |-> trim(items[k])]

NonEmpty(item) == Len(item) > 0

\* a mutant: the empty pieces are kept
parseIngredientsNoFilter(text) ==
    IF Falsy(text) THEN <<>> ELSE mapTrim(split(text))

parseIngredients(text) ==
    IF Falsy(text) THEN <<>>
    ELSE SelectSeq(mapTrim(split(text)), NonEmpty)

----------------------------------------------------------------------------
(* verifyIngredients *)

\* bestSimilarity > 0.7
ThresholdNum == 7
ThresholdDen == 10
\* a mutant: bestSimilarity > 0.6
ThresholdLoose == [num |-> 6, den |-> 10]

Threshold == [num |-> ThresholdNum, den |-> ThresholdDen]

Zero == [num |-> 0, den |-> 1]

\* Math.round(x * 100): the nearest integer, a half rounded up
MathRound100(x) == (200 * x.num + x.den) \div (2 * x.den)

\* the loop over dbIngredients, from its k-th token on
RECURSIVE BestLoop(_, _, _, _)
BestLoop(ocrIngredient, dbIngredients, k, best) ==
    IF k > Len(dbIngredients) THEN best
    ELSE LET dbIngredient == dbIngredients[k]
             sim == calculateSimilarity(toLowerCase(ocrIngredient),
                                        toLowerCase(dbIngredient))
         IN  BestLoop(ocrIngredient, dbIngredients, k + 1,
                      IF Greater(sim, best.bestSimilarity)
                      THEN [bestMatch |-> dbIngredient, bestSimilarity |-> sim]
                      ELSE best)

TypeError(message) == [threw |-> TRUE, name |-> "TypeError", message |-> message]

\* the loop over ocrIngredients, from its i-th token on
RECURSIVE OcrLoop(_, _, _, _, _)
OcrLoop(ocr, dbIngredients, i, verified, corrections) ==
    IF i > Len(ocr)
    THEN [threw |-> FALSE, verified |-> verified, corrections |-> corrections,
          dbIngredients |-> dbIngredients]
    ELSE LET ocrIngredient == ocr[i] IN
         IF dbIngredients # <<>> /\ ~IsString(ocrIngredient)
         THEN TypeError("ocrIngredient.toLowerCase is not a function")
         ELSE LET best == BestLoop(ocrIngredient, dbIngredients, 1,
                                   [bestMatch |-> null, bestSimilarity |-> Zero])
              IN  IF Greater(best.bestSimilarity, Threshold)
                  THEN OcrLoop(ocr, dbIngredients, i + 1,
                               Append(verified, best.bestMatch),
                               IF ocrIngredient # best.bestMatch
                               THEN Append(corrections,
                                      [original |-> ocrIngredient,
                                       corrected |-> best.bestMatch,
                                       confidence |-> MathRound100(best.bestSimilarity)])
                               ELSE corrections)
                  ELSE OcrLoop(ocr, dbIngredients, i + 1,
                               Append(verified, ocrIngredient), corrections)

\* the loop over ocrIngredients with one of three slips:
\*   "drop"   an unmatched token is not pushed to verified
\*   "always" a correction is pushed for every match, identical or not
\*   "lower"  the match is pushed to verified in lower case
\*   "folded" the match is compared with the OCR token in lower case
RECURSIVE OcrLoopSlip(_, _, _, _, _, _)
OcrLoopSlip(slip, ocr, dbIngredients, i, verified, corrections) ==
    IF i > Len(ocr)
    THEN [threw |-> FALSE, verified |-> verified, corrections |-> corrections,
          dbIngredients |-> dbIngredients]
    ELSE LET ocrIngredient == ocr[i]
             best == BestLoop(ocrIngredient, dbIngredients, 1,
                              [bestMatch |-> null, bestSimilarity |-> Zero])
         IN  IF Greater(best.bestSimilarity, Threshold)
             THEN OcrLoopSlip(slip, ocr, dbIngredients, i + 1,
                      Append(verified, IF slip = "lower"
                                       THEN toLowerCase(best.bestMatch)
                                       ELSE best.bestMatch),
                      IF \/ slip = "always"
                         \/ IF slip = "folded"
                            THEN toLowerCase(ocrIngredient) # best.bestMatch
                            ELSE ocrIngredient # best.bestMatch
                      THEN Append(corrections,
                             [original |-> ocrIngredient,
                              corrected |-> best.bestMatch,
                              confidence |-> MathRound100(best.bestSimilarity)])
                      ELSE corrections)
             ELSE OcrLoopSlip(slip, ocr, dbIngredients, i + 1,
                      IF slip = "drop" THEN verified
                                       ELSE Append(verified, ocrIngredient),
                      corrections)

verifyIngredientsDrop(ocr, dbString) ==
    OcrLoopSlip("drop", ocr.v, parseIngredients(dbString), 1, <<>>, <<>>)

verifyIngredientsAlways(ocr, dbString) ==
    OcrLoopSlip("always", ocr.v, parseIngredients(dbString), 1, <<>>, <<>>)

verifyIngredientsLower(ocr, dbString) ==
    OcrLoopSlip("lower", ocr.v, parseIngredients(dbString), 1, <<>>, <<>>)

verifyIngredientsFolded(ocr, dbString) ==
    IF ~Falsy(dbString) /\ ~IsString(dbString)
    THEN TypeError("ingredientString.split is not a function")
    ELSE IF ocr.t # "array"
    THEN TypeError("ocrIngredients is not iterable")
    ELSE OcrLoopSlip("folded", ocr.v, parseIngredients(dbString), 1, <<>>, <<>>)

\* the array a, as the value of an argument that may be absent or malformed
Array(a) == [t |-> "array", v |-> a]
Absent == [t |-> "undefined"]
NumberValue == [t |-> "number"]

\* ocr is Array(tokens), or a value for...of cannot iterate;
\* dbString is a string, undefined, null or aNumber
verifyIngredients(ocr, dbString) ==
    IF ~Falsy(dbString) /\ ~IsString(dbString)
    THEN TypeError("ingredientString.split is not a function")
    ELSE IF ocr.t # "array"
    THEN TypeError("ocrIngredients is not iterable")
    ELSE OcrLoop(ocr.v, parseIngredients(dbString), 1, <<>>, <<>>)

----------------------------------------------------------------------------
(* The value of a variable that holds nothing yet *)

NotYet == [t |-> "none"]

SimIdle == str1 = NotYet /\ str2 = NotYet /\ similarity = NotYet
TokIdle == ingredientString = NotYet /\ parsed = NotYet
RecIdle ==
    /\ ocrIngredients = NotYet /\ dbIngredientsString = NotYet
    /\ first = NotYet /\ second = NotYet
SrvIdle ==
    /\ transport = NotYet /\ request = NotYet /\ response = NotYet
    /\ dbProduct = NotYet /\ result = NotYet

----------------------------------------------------------------------------
(* SpecSimilarity: calculateSimilarity applied to every pair of arguments *)

SimAlphabet == {"a", "b", "c"}
SimInputs == StringsUpTo(SimAlphabet, MaxLen) \cup {undefined, null}

InitSimilarity ==
    /\ str1 \in SimInputs /\ str2 \in SimInputs /\ similarity = NotYet
    /\ pc = "call"
    /\ TokIdle /\ RecIdle /\ SrvIdle

CallCalculateSimilarity ==
    /\ pc = "call"
    /\ similarity' = calculateSimilarity(str1, str2)
    /\ pc' = "returned"
    /\ UNCHANGED <<str1, str2, tokVars, recVars, srvVars>>

NextSimilarity == CallCalculateSimilarity

SpecSimilarity == InitSimilarity /\ [][NextSimilarity]_vars

\* the classic unit-cost insert / delete / substitute distance
RECURSIVE Levenshtein(_, _)
Levenshtein(a, b) ==
    IF a = <<>> THEN Len(b)
    ELSE IF b = <<>> THEN Len(a)
    ELSE IF Head(a) = Head(b) THEN Levenshtein(Tail(a), Tail(b))
    ELSE 1 + MathMin(Levenshtein(Tail(a), Tail(b)),
                     MathMin(Levenshtein(Tail(a), b), Levenshtein(a, Tail(b))))

MaxOf(a, b) == IF a > b THEN a ELSE b

\* C8: similarity(a, b) is 0 when either string is empty or absent, and
\* otherwise (max(len a, len b) - lev(a, b)) / max(len a, len b) with lev the
\* classic Levenshtein distance: the rolling row computes exactly lev.
C8_SimilarityIsLevenshtein ==
    pc = "returned" =>
        IF Falsy(str1) \/ Falsy(str2)
        THEN similarity.num = 0
        ELSE LET m == MaxOf(Len(str1), Len(str2))
             IN  /\ similarity.den = m
                 /\ similarity.num = m - Levenshtein(str1, str2)
                 /\ getEditDistance(str1, str2) = Levenshtein(str1, str2)

\* two strings of the longest length that differ, after the call
C8_Witness ==
    /\ pc = "returned"
    /\ ~Falsy(str1) /\ ~Falsy(str2)
    /\ Len(str1) = MaxLen /\ Len(str2) = MaxLen - 1
    /\ similarity.num > 0 /\ similarity.num < similarity.den - 1

----------------------------------------------------------------------------
(* SpecTokenize: parseIngredients applied to every text *)

TokAlphabet == {"a", "b", ",", ";", "/", " ", "\t"}
TokInputs == StringsUpTo(TokAlphabet, MaxText) \cup {undefined, null}

InitTokenize ==
    /\ ingredientString \in TokInputs /\ parsed = NotYet
    /\ pc = "call"
    /\ SimIdle /\ RecIdle /\ SrvIdle

CallParseIngredients ==
    /\ pc = "call"
    /\ parsed' = parseIngredients(ingredientString)
    /\ pc' = "returned"
    /\ UNCHANGED <<ingredientString, simVars, recVars, srvVars>>

NextTokenize == CallParseIngredients

SpecTokenize == InitTokenize /\ [][NextTokenize]_vars

\* the positions of the delimiters of text, with 0 and Len(text) + 1
Cuts(text) ==
    {k \in 1..Len(text) : text[k] \in Delimiters} \cup {0, Len(text) + 1}

\* the m-th cut, counted from 0
Cut(text, m) ==
    CHOOSE p \in Cuts(text) : Cardinality({q \in Cuts(text) : q < p}) = m

SegmentCount(text) == Cardinality(Cuts(text)) - 1

\* the m-th segment of text between two successive cuts, m = 1, 2, ...
Segment(text, m) == SubSeq(text, Cut(text, m - 1) + 1, Cut(text, m) - 1)

\* a segment that holds something but white space
NonBlank(seg) == \E k \in 1..Len(seg) : seg[k] \notin WhiteSpace

\* a segment without the white space around it
Core(seg) ==
    LET inside == {k \in 1..Len(seg) : seg[k] \notin WhiteSpace}
        lo == CHOOSE k \in inside : \A q \in inside : k <= q
        hi == CHOOSE k \in inside : \A q \in inside : k >= q
    IN  IF inside = {} THEN <<>> ELSE SubSeq(seg, lo, hi)

\* the index of the i-th segment of text that is not blank
NthNonBlank(text, i) ==
    CHOOSE m \in 1..SegmentCount(text) :
        /\ NonBlank(Segment(text, m))
        /\ Cardinality({q \in 1..m : NonBlank(Segment(text, q))}) = i

NonBlankCount(text) ==
    Cardinality({m \in 1..SegmentCount(text) : NonBlank(Segment(text, m))})

NonEmptyCount(text) ==
    Cardinality({m \in 1..SegmentCount(text) : Segment(text, m) # <<>>})

NoEmptyToken == \A i \in 1..Len(parsed) : NonBlank(parsed[i])

InOrderOfAppearance ==
    \A i \in 1..Len(parsed) :
        i <= NonBlankCount(ingredientString)
        => parsed[i] = Core(Segment(ingredientString, NthNonBlank(ingredientString, i)))

\* C9 as stated: no token is empty after trimming, the number of tokens is
\* the number of non-empty segments of the split on , ; /, the tokens keep
\* their order of appearance, and null / empty / absent input gives <<>>.
C9_AsStated ==
    pc = "returned" =>
        IF Falsy(ingredientString) THEN parsed = <<>>
        ELSE /\ NoEmptyToken
             /\ Len(parsed) = NonEmptyCount(ingredientString)
             /\ InOrderOfAppearance

\* C9 amended: the number of tokens is the number of segments that are
\* non-empty after trimming; the rest as stated.
C9_Tokenize ==
    pc = "returned" =>
        IF Falsy(ingredientString) THEN parsed = <<>>
        ELSE /\ NoEmptyToken
             /\ Len(parsed) = NonBlankCount(ingredientString)
             /\ InOrderOfAppearance

\* a text with a blank segment between two tokens, after the call
C9_Witness ==
    /\ pc = "returned"
    /\ ~Falsy(ingredientString)
    /\ SegmentCount(ingredientString) = 3
    /\ NonBlankCount(ingredientString) = 2
    /\ NonEmptyCount(ingredientString) = 3
    /\ Len(parsed) = 2 /\ parsed[1] # parsed[2]

----------------------------------------------------------------------------
(* SpecReconcile: verifyIngredients applied to lists of OCR tokens and DB  *)
(* raw texts, and then to its own verified list and the same DB text       *)

\* a DB token and its neighbours: one substitution away (Near, Typo), in
\* upper case (Upper, Capital), and three insertions away (Far): 7/10
TokX == <<"a", "b", "c", "d", "a", "b", "c">>
TokNear == <<"a", "b", "c", "d", "a", "b", "d">>
TokTypo == <<"a", "b", "c", "d", "a", "b", "a">>
TokUpper == <<"A", "B", "C", "D", "A", "B", "C">>
TokCapital == <<"A", "b", "c", "d", "a", "b", "c">>
TokFar == TokX \o <<"d", "d", "d">>

OcrPool == {TokX, TokTypo, TokCapital, TokFar, <<>>}
DbPieces == {TokX, <<" ">> \o TokNear, TokUpper}
Separators == {<<",">>}

\* all sequences over S of length at most n
RECURSIVE ListsUpTo(_, _)
ListsUpTo(S, n) ==
    IF n = 0 THEN {<<>>}
    ELSE LET shorter == ListsUpTo(S, n - 1)
         IN  shorter \cup {Append(l, x) : l \in shorter, x \in S}

\* the raw texts of exactly n pieces
RECURSIVE TextsOf(_)
TextsOf(n) ==
    IF n = 0 THEN {<<>>}
    ELSE IF n = 1 THEN DbPieces
    ELSE {t \o sep \o piece : t \in TextsOf(n - 1), sep \in Separators,
                              piece \in DbPieces}

DbTexts == UNION {TextsOf(n) : n \in 0..MaxPieces}

InitReconcile ==
    /\ ocrIngredients \in ListsUpTo(OcrPool, MaxOcr)
    /\ dbIngredientsString \in DbTexts
    /\ first = NotYet /\ second = NotYet
    /\ pc = "call"
    /\ SimIdle /\ TokIdle /\ SrvIdle

CallVerifyIngredients ==
    /\ pc = "call"
    /\ first' = verifyIngredients(Array(ocrIngredients), dbIngredientsString)
    /\ pc' = "returned"
    /\ UNCHANGED <<ocrIngredients, dbIngredientsString, second,
                   simVars, tokVars, srvVars>>

CallVerifyIngredientsAgain ==
    /\ pc = "returned"
    /\ ~first.threw
    /\ second' = verifyIngredients(Array(first.verified), dbIngredientsString)
    /\ pc' = "again"
    /\ UNCHANGED <<ocrIngredients, dbIngredientsString, first,
                   simVars, tokVars, srvVars>>

NextReconcile == CallVerifyIngredients \/ CallVerifyIngredientsAgain

SpecReconcile == InitReconcile /\ [][NextReconcile]_vars

\* what the claims are stated in: the DB tokens, the similarities of the
\* i-th OCR token to each DB token, and comparisons of fractions
DbTokens == parseIngredients(dbIngredientsString)

SimRow(i) ==
    [k \in 1..Len(DbTokens) |->
        calculateSimilarity(toLowerCase(ocrIngredients[i]),
                            toLowerCase(DbTokens[k]))]

Exceeds(x, y) == x.num * y.den > y.num * x.den

AboveThreshold(x) == 10 * x.num > 7 * x.den

\* the k-th entry of row is a greatest one
IsGreatest(row, k) == \A q \in DOMAIN row : ~Exceeds(row[q], row[k])

\* the earliest of the greatest entries of row
Earliest(row) ==
    CHOOSE k \in DOMAIN row :
        IsGreatest(row, k) /\ \A q \in 1..(k - 1) : ~IsGreatest(row, q)

\* for the i-th OCR token: the index of the earliest DB token of the
\* greatest similarity (0 with no DB token), that similarity, whether it
\* is above the threshold, and whether a later DB token ties with it
BestOf(i) ==
    LET row == SimRow(i) IN
    IF DOMAIN row = {}
    THEN [k |-> 0, sim |-> [num |-> 0, den |-> 1], matched |-> FALSE, tied |-> FALSE]
    ELSE LET k == Earliest(row)
         IN  [k |-> k, sim |-> row[k], matched |-> AboveThreshold(row[k]),
              tied |-> \E q \in DOMAIN row :
                          /\ q > k /\ IsGreatest(row, q)
                          /\ DbTokens[q] # DbTokens[k]]

BestTable == [i \in 1..Len(ocrIngredients) |-> BestOf(i)]

\* right after the first call
Returned == pc = "returned"

Members(s) == {s[k] : k \in 1..Len(s)}

\* C2: verified is as long as the OCR list, and verified[i] is ocr[i] or a
\* DB token: no OCR token is dropped, duplicated or reordered.
C2_SameLengthAndOrder ==
    Returned =>
        /\ ~first.threw
        /\ Len(first.verified) = Len(ocrIngredients)
        /\ \A i \in 1..Len(ocrIngredients) :
              \/ first.verified[i] = ocrIngredients[i]
              \/ first.verified[i] \in Members(DbTokens)

\* a list of the longest length with a token kept that is no DB token and
\* a token replaced
C2_Witness ==
    /\ Returned
    /\ Len(ocrIngredients) = MaxOcr
    /\ \E i \in 1..Len(ocrIngredients) :
          /\ first.verified[i] = ocrIngredients[i]
          /\ ocrIngredients[i] \notin Members(DbTokens)
    /\ \E i \in 1..Len(ocrIngredients) :
          first.verified[i] # ocrIngredients[i]

\* the positions at which the OCR token was replaced
Changed == {i \in 1..Len(ocrIngredients) : first.verified[i] # ocrIngredients[i]}

\* the n-th position of Changed
NthChanged(n) ==
    CHOOSE i \in Changed : Cardinality({q \in Changed : q <= i}) = n

\* c is x * 100 rounded to the nearest integer, a half rounded up
IsRounded100(c, x) ==
    /\ 2 * c * x.den <= 200 * x.num + x.den
    /\ 200 * x.num + x.den < 2 * (c + 1) * x.den

\* C3: corrections holds, in OCR order, exactly one Correction for each
\* position matched above the threshold whose OCR token differs verbatim
\* from the match (each i with verified[i] # ocr[i]), with original ocr[i],
\* corrected verified[i] and an integer confidence in [0,100] equal to
\* round(100 * best similarity).
C3_CorrectionsExact ==
    Returned =>
        LET best == BestTable IN
        /\ Changed = {i \in 1..Len(ocrIngredients) :
                        /\ best[i].matched
                        /\ ocrIngredients[i] # DbTokens[best[i].k]}
        /\ Len(first.corrections) = Cardinality(Changed)
        /\ \A n \in 1..Len(first.corrections) :
              LET c == first.corrections[n]
                  i == NthChanged(n)
              IN  /\ c.original = ocrIngredients[i]
                  /\ c.corrected = first.verified[i]
                  /\ c.confidence \in 0..100
                  /\ IsRounded100(c.confidence, best[i].sim)

\* a correction of a misread token (confidence below 100) after a token
\* matched verbatim, which has none
C3_Witness ==
    /\ Returned
    /\ Len(ocrIngredients) = 2
    /\ BestOf(1).matched /\ first.verified[1] = ocrIngredients[1]
    /\ Len(first.corrections) = 1
    /\ first.corrections[1].original = ocrIngredients[2]
    /\ first.corrections[1].confidence < 100

\* C10: reconciling the verified list of a first reconcile against the same
\* DB text yields no correction and a verified list equal to its input.
C10_Idempotent ==
    pc = "again" =>
        /\ ~second.threw
        /\ second.corrections = <<>>
        /\ second.verified = first.verified

\* the second pass after a first pass that corrected one token and kept one
C10_Witness ==
    /\ pc = "again"
    /\ first.corrections # <<>>
    /\ \E i \in 1..Len(ocrIngredients) :
          first.verified[i] = ocrIngredients[i] /\ ~BestOf(i).matched
    /\ second.verified = first.verified

----------------------------------------------------------------------------
(* searchFoodInDB and the verify_food_label handler of the two servers *)

\* JSON values that may be absent: null, and an object of the given fields
Null == [t |-> "null"]
Object(fields) == [t |-> "object", f |-> fields]

Truthy(v) == v.t \notin {"undefined", "null"}

\* the body of the try block of searchFoodInDB, once axios.get has settled:
\* a rejected promise throws at the await
SearchTry(resp) ==
    IF resp.settled = "rejected"
    THEN [threw |-> TRUE, message |-> resp.message]
    ELSE IF /\ Truthy(resp.data)
            /\ Truthy(resp.data.f.body)
            /\ Truthy(resp.data.f.body.f.items)
         THEN LET items == resp.data.f.body.f.items.v
              IN  [threw |-> FALSE,
                   value |-> IF Len(items) > 0 THEN items[1] ELSE Null]
         ELSE [threw |-> FALSE, value |-> Null]

\* a mutant: no catch around the lookup
searchFoodInDBNoCatch(resp) == SearchTry(resp)

\* try { ... } catch (error) { ...; return null }
searchFoodInDB(resp) ==
    LET tried == SearchTry(resp)
    IN  IF tried.threw THEN [threw |-> FALSE, value |-> Null] ELSE tried

\* a mutant: the confidence falls with the number of corrections
OverallConfidenceGraded(corrections) ==
    IF Len(corrections) = 0 THEN 100 ELSE 100 - 10 * Len(corrections)

\* corrections.length === 0 ? 100 : 85
OverallConfidence(corrections) ==
    IF Len(corrections) = 0 THEN 100 ELSE 85

Returns(isError, payload) ==
    [outcome |-> "returned", isError |-> isError, payload |-> payload]

\* the handler's promise rejects: the fault leaves the handler
Rejects(name) == [outcome |-> "threw", name |-> name]

\* the body of the handler's try block from the settled lookup on; args is
\* the object of the tool arguments.  A property whose value is undefined
\* is left out by JSON.stringify and is kept here with the value undefined.
TryBody(args, resp) ==
    LET found == searchFoodInDB(resp) IN
    IF found.threw THEN [threw |-> TRUE, message |-> found.message]
    ELSE LET product == found.value IN
    IF ~Truthy(product)
    THEN [threw |-> FALSE,
          payload |->
            [verified |-> FALSE,
             message |-> "not found in DB, OCR result used as is",
             originalData |-> [productName |-> args.productName,
                               manufacturer |-> args.manufacturer,
                               ingredients |-> args.ingredients],
             suggestion |-> "check the product name again"]]
    ELSE LET r == verifyIngredients(args.ingredients,
                      OrElse(OrElse(product.f.rawmtrl_nm, product.f.RAWMTRL_NM), <<>>))
         IN  IF r.threw THEN [threw |-> TRUE, message |-> r.message]
             ELSE [threw |-> FALSE,
                   payload |->
                     [verified |-> TRUE,
                      productInfo |->
                        [name |-> OrElse(OrElse(product.f.prdlst_nm, product.f.PRDLST_NM),
                                         args.productName),
                         manufacturer |-> OrElse(OrElse(product.f.bssh_nm, product.f.BSSH_NM),
                                                 args.manufacturer),
                         reportNumber |-> OrElse(product.f.prdlst_report_no,
                                                 product.f.PRDLST_REPORT_NO)],
                      ingredients |-> [original |-> args.ingredients,
                                       verified |-> r.verified,
                                       fromDB |-> r.dbIngredients,
                                       inCorrectOrder |-> TRUE],
                      corrections |-> r.corrections,
                      confidence |-> OverallConfidence(r.corrections),
                      message |-> IF Len(r.corrections) = 0
                                  THEN <<"all correct">>
                                  ELSE <<Len(r.corrections), "items corrected">>]]

\* the stdio server's handler from the settled lookup on
StdioVerify(args, resp) ==
    LET tried == TryBody(args, resp)
    IN  IF tried.threw
        THEN Returns(TRUE, [error |-> TRUE, message |-> tried.message,
                            details |-> "error.stack"])
        ELSE Returns(FALSE, tried.payload)

\* the HTTP server's tool callback from the settled lookup on
HttpVerify(args, resp) ==
    LET tried == TryBody(args, resp)
    IN  IF tried.threw
        THEN Returns(TRUE, [error |-> TRUE, message |-> tried.message])
        ELSE Returns(FALSE, tried.payload)

----------------------------------------------------------------------------
(* Spec: one tools/call request from its arrival to its result *)

\* mil-ga-ru, and its misreading mil-ga-ryu
Milgaru == <<"U+BC00", "U+AC00", "U+B8E8">>
Milgaryu == <<"U+BC00", "U+AC00", "U+B958">>
\* seol-tang and so-geum
Seoltang == <<"U+C124", "U+D0D5">>
Sogeum == <<"U+C18C", "U+AE08">>

ProductName == <<"a", "b">>
Manufacturer == <<"c", "d">>

IngredientValues ==
    {Absent, NumberValue, Array(<<>>), Array(<<aNumber>>),
     Array(<<TokX>>), Array(<<TokTypo>>), Array(<<TokCapital, TokTypo>>),
     Array(<<Milgaryu>>), Array(<<TokUpper, TokX>>),
     Array(<<Milgaru, Seoltang, Sogeum>>)}

\* the arguments objects a client may send
ArgumentObjects ==
    {Object([productName |-> n, manufacturer |-> m, ingredients |-> i]) :
        n \in {ProductName, undefined}, m \in {Manufacturer, undefined},
        i \in IngredientValues}

\* those the HTTP server's schema lets through: productName a string,
\* ingredients an array of strings
ValidArgumentObjects ==
    {a \in ArgumentObjects :
        /\ a.f.productName # undefined
        /\ a.f.ingredients.t = "array"
        /\ \A k \in 1..Len(a.f.ingredients.v) : IsString(a.f.ingredients.v[k])}

Requests ==
    {[name |-> "verify_food_label", arguments |-> a] :
        a \in ArgumentObjects \cup {Absent}}
    \cup {[name |-> "other_tool", arguments |-> Absent]}

\* a product record with its fields under lower-case or upper-case keys
Record(lower, raw, name) ==
    Object([rawmtrl_nm       |-> IF lower THEN raw ELSE undefined,
            RAWMTRL_NM       |-> IF lower THEN undefined ELSE raw,
            prdlst_nm        |-> IF lower THEN name ELSE undefined,
            PRDLST_NM        |-> IF lower THEN undefined ELSE name,
            bssh_nm          |-> undefined,
            BSSH_NM          |-> IF lower THEN undefined ELSE Manufacturer,
            prdlst_report_no |-> IF lower THEN <<"a">> ELSE undefined,
            PRDLST_REPORT_NO |-> undefined])

Records ==
    {Record(TRUE, TokX, ProductName),
     Record(FALSE, TokX \o <<",", " ">> \o TokNear, ProductName),
     Record(TRUE, TokUpper \o <<"/">> \o TokX, undefined),
     Record(TRUE, Milgaru, ProductName),
     Record(TRUE, Milgaru \o <<",", " ">> \o Seoltang \o <<",", " ">> \o Sogeum,
            ProductName),
     Record(FALSE, undefined, undefined),
     Record(TRUE, aNumber, ProductName)}

Fulfilled(data) == [settled |-> "fulfilled", data |-> data]

\* what axios.get may settle to
Responses ==
    {[settled |-> "rejected", message |-> m] :
        m \in {"timeout of 10000ms exceeded", "Request failed with status code 500"}}
    \cup {Fulfilled(Absent),
          Fulfilled(Object([body |-> Absent])),
          Fulfilled(Object([body |-> Object([items |-> Absent])])),
          Fulfilled(Object([body |-> Object([items |-> Array(<<>>)])])),
          Fulfilled(Object([body |-> Object([items |-> Array(<<Null>>)])]))}
    \cup {Fulfilled(Object([body |-> Object([items |-> Array(<<r>>)])])) :
            r \in Records}
    \cup {Fulfilled(Object([body |-> Object([items |->
            Array(<<Record(TRUE, Milgaru, ProductName),
                    Record(TRUE, TokX, ProductName)>>)])]))}

Init ==
    /\ pc = "idle"
    /\ SimIdle /\ TokIdle /\ RecIdle /\ SrvIdle

\* the stdio server's handler up to the lookup
StdioCallTool(req) ==
    /\ pc = "idle"
    /\ transport' = "stdio"
    /\ request' = req
    /\ IF req.name = "verify_food_label"
       THEN IF req.arguments.t = "undefined"
            \* the destructuring of the arguments stands before the try
            THEN /\ result' = Rejects("TypeError")
                 /\ pc' = "done"
            ELSE /\ result' = result
                 /\ pc' = "awaitLookup"
       ELSE /\ result' = Returns(TRUE, [text |-> "unknown tool"])
            /\ pc' = "done"
    /\ UNCHANGED <<response, dbProduct, simVars, tokVars, recVars>>

\* the HTTP server's tool callback up to the lookup
HttpCallTool(args) ==
    /\ pc = "idle"
    /\ transport' = "http"
    /\ request' = [name |-> "verify_food_label", arguments |-> args]
    /\ pc' = "awaitLookup"
    /\ UNCHANGED <<response, dbProduct, result, simVars, tokVars, recVars>>

\* axios.get settles and the handler runs to its end
LookupSettles(resp) ==
    /\ pc = "awaitLookup"
    /\ response' = resp
    /\ dbProduct' = searchFoodInDB(resp)
    /\ result' = IF transport = "stdio"
                 THEN StdioVerify(request.arguments.f, resp)
                 ELSE HttpVerify(request.arguments.f, resp)
    /\ pc' = "done"
    /\ UNCHANGED <<transport, request, simVars, tokVars, recVars>>

Next ==
    \/ \E req \in Requests : StdioCallTool(req)
    \/ \E args \in ValidArgumentObjects : HttpCallTool(args)
    \/ \E resp \in Responses : LookupSettles(resp)

Spec == Init /\ [][Next]_vars

Done == pc = "done"

\* the request asked for verify_food_label
VerifyAsked == request.name = "verify_food_label"

\* the lookup has settled
LookedUp == Done /\ response # NotYet

\* the lookup yields no candidate: the call failed or timed out, the
\* response lacks body.items, or the items list is empty
NoCandidate(resp) ==
    IF resp.settled = "rejected" THEN TRUE
    ELSE IF ~Truthy(resp.data) THEN TRUE
    ELSE IF ~Truthy(resp.data.f.body) THEN TRUE
    ELSE IF ~Truthy(resp.data.f.body.f.items) THEN TRUE
    ELSE resp.data.f.body.f.items.v = <<>>

Has(payload, field) == field \in DOMAIN payload

IsNotFound(res) ==
    /\ res.outcome = "returned" /\ ~res.isError
    /\ Has(res.payload, "verified") /\ res.payload.verified = FALSE
    /\ Has(res.payload, "originalData") /\ Has(res.payload, "message")
    /\ ~Has(res.payload, "corrections") /\ ~Has(res.payload, "error")

IsVerified(res) ==
    /\ res.outcome = "returned" /\ ~res.isError
    /\ Has(res.payload, "verified") /\ res.payload.verified = TRUE
    /\ Has(res.payload, "corrections") /\ Has(res.payload, "confidence")
    /\ ~Has(res.payload, "error")

IsErrorResult(res) ==
    /\ res.outcome = "returned"
    /\ Has(res.payload, "error") /\ res.payload.error = TRUE
    /\ Has(res.payload, "message")
    /\ ~Has(res.payload, "verified")

\* C4: when the lookup yields no candidate, verify returns a normal result
\* with verified = false whose originalData echoes productName,
\* manufacturer and ingredients and which has no corrections field; the
\* failure does not leave searchFoodInDB as an exception and gives no
\* error-flagged result.
C4_NoCandidateIsNotFound ==
    (LookedUp /\ NoCandidate(response)) =>
        /\ dbProduct = [threw |-> FALSE, value |-> Null]
        /\ IsNotFound(result)
        /\ result.payload.originalData =
              [productName |-> request.arguments.f.productName,
               manufacturer |-> request.arguments.f.manufacturer,
               ingredients |-> request.arguments.f.ingredients]

\* a timed-out lookup for a request with a manufacturer and ingredients
C4_Witness ==
    /\ LookedUp
    /\ response.settled = "rejected"
    /\ response.message = "timeout of 10000ms exceeded"
    /\ request.arguments.f.manufacturer = Manufacturer
    /\ request.arguments.f.ingredients = Array(<<TokCapital, TokTypo>>)
    /\ IsNotFound(result)

\* C5 as stated: every verify invocation, whatever its arguments and the
\* lookup's outcome, ends by returning one well-formed payload (verified,
\* not found, or error with a message); no fault leaves the handler.
C5_AlwaysWellFormed ==
    (Done /\ VerifyAsked) =>
        /\ result.outcome = "returned"
        /\ IsVerified(result) \/ IsNotFound(result) \/ IsErrorResult(result)

\* Scenario B: the OCR list is mil-ga-ryu alone and the record found has
\* the raw ingredient text mil-ga-ru
ScenarioB ==
    /\ LookedUp
    /\ request.arguments.f.ingredients = Array(<<Milgaryu>>)
    /\ Truthy(dbProduct.value)
    /\ OrElse(dbProduct.value.f.rawmtrl_nm, dbProduct.value.f.RAWMTRL_NM) = Milgaru

\* C6 as stated: in Scenario B the similarity exceeds 0.70, verified is
\* mil-ga-ru, there is one Correction from mil-ga-ryu to mil-ga-ru with a
\* confidence of about 75, and the overall confidence is 85.
C6_AsStated ==
    ScenarioB =>
        /\ IsVerified(result)
        /\ result.payload.ingredients.verified = <<Milgaru>>
        /\ Len(result.payload.corrections) = 1
        /\ result.payload.corrections[1].original = Milgaryu
        /\ result.payload.corrections[1].corrected = Milgaru
        /\ result.payload.corrections[1].confidence \in 70..80
        /\ result.payload.confidence = 85

\* C6 amended: in Scenario B the similarity is 2/3, which does not exceed
\* 0.70, so verified is mil-ga-ryu unchanged, there is no Correction, and
\* the overall confidence is 100.
C6_ScenarioB ==
    ScenarioB =>
        /\ calculateSimilarity(toLowerCase(Milgaryu), toLowerCase(Milgaru))
              = [num |-> 2, den |-> 3]
        /\ IsVerified(result)
        /\ result.payload.ingredients.verified = <<Milgaryu>>
        /\ result.payload.ingredients.fromDB = <<Milgaru>>
        /\ result.payload.corrections = <<>>
        /\ result.payload.confidence = 100

C6_Witness ==
    /\ ScenarioB
    /\ transport = "stdio"
    /\ IsVerified(result)
    /\ result.payload.ingredients.original = Array(<<Milgaryu>>)

\* C7: in every verified = true result the overall confidence is 100
\* exactly when corrections is empty and 85 otherwise, whatever the number
\* of corrections and their confidence scores.
C7_OverallConfidence ==
    (Done /\ IsVerified(result)) =>
        result.payload.confidence =
            IF result.payload.corrections = <<>> THEN 100 ELSE 85

\* a verified result with two corrections of different confidence
C7_Witness ==
    /\ Done /\ IsVerified(result)
    /\ Len(result.payload.corrections) = 2
    /\ result.payload.corrections[1].confidence
          # result.payload.corrections[2].confidence
    /\ result.payload.confidence = 85

\* a verified = true result of a settled lookup: reconcile has run
Reconciled == LookedUp /\ IsVerified(result)

\* the OCR tokens of the request and the tokens of the found record's
\* raw ingredient text
OcrTokens == request.arguments.f.ingredients.v
FoundTokens ==
    parseIngredients(OrElse(OrElse(dbProduct.value.f.rawmtrl_nm,
                                   dbProduct.value.f.RAWMTRL_NM), <<>>))

SameIgnoringCase(s, t) == toLowerCase(s) = toLowerCase(t)

\* the i-th OCR token is verbatim a DB token
InDb(i) == \E k \in 1..Len(FoundTokens) : FoundTokens[k] = OcrTokens[i]

\* the i-th OCR token is verbatim a DB token that no different DB token
\* equal to it but for case precedes
FirstOfItsCase(i) ==
    \E k \in 1..Len(FoundTokens) :
        /\ FoundTokens[k] = OcrTokens[i]
        /\ \A q \in 1..(k - 1) : ~SameIgnoringCase(FoundTokens[q], OcrTokens[i])

\* the i-th OCR token is returned at its position and no Correction is
\* made for it
Untouched(i) ==
    /\ result.payload.ingredients.verified[i] = OcrTokens[i]
    /\ \A c \in 1..Len(result.payload.corrections) :
          result.payload.corrections[c].original # OcrTokens[i]

AllAccepted ==
    /\ result.payload.ingredients.verified = OcrTokens
    /\ result.payload.corrections = <<>>
    /\ result.payload.confidence = 100

\* C11 as stated: an OCR token verbatim equal to some DB token is returned
\* unchanged at its position and produces no Correction; when the OCR list
\* equals the DB token list element for element, verified is the OCR list,
\* corrections is empty and the confidence is 100.
C11_AsStated ==
    Reconciled =>
        /\ \A i \in 1..Len(OcrTokens) : InDb(i) => Untouched(i)
        /\ OcrTokens = FoundTokens => AllAccepted

\* C11 amended: an OCR token verbatim equal to a DB token that no different
\* DB token equal to it but for case precedes is returned unchanged at its
\* position and produces no Correction; when the OCR list equals the DB
\* token list element for element and every token of it is such a token,
\* verified is the OCR list, corrections is empty and the confidence is 100.
C11_VerbatimFirstOfItsCase ==
    Reconciled =>
        /\ \A i \in 1..Len(OcrTokens) : FirstOfItsCase(i) => Untouched(i)
        /\ (/\ OcrTokens = FoundTokens
            /\ \A i \in 1..Len(OcrTokens) : FirstOfItsCase(i)) => AllAccepted

\* Scenario A: mil-ga-ru, seol-tang, so-geum read as the record lists them
C11_Witness ==
    /\ Reconciled
    /\ OcrTokens = <<Milgaru, Seoltang, Sogeum>>
    /\ FoundTokens = OcrTokens
    /\ \A i \in 1..3 : FirstOfItsCase(i)
    /\ AllAccepted

====
